---- MODULE Spec2Model ----
(***************************************************************************)
(* The evolution orchestrator (orchestrator/src/main.rs, config.rs) as a   *)
(* state machine.  The orchestrator is one synchronous process; every      *)
(* subprocess it starts (bootstrap command, cargo, git, aider, the test    *)
(* command) is a child that is spawned, runs while the orchestrator is     *)
(* blocked, and exits.  The target directory is a small file system plus a *)
(* git repository (HEAD, index, commits).                                  *)
(***************************************************************************)
EXTENDS Integers, Sequences, FiniteSets, TLC

\* ------------------------------------------------------------------ bounds

\* Largest max_generations an explored Evolve.toml sets explicitly.
MaxGenerations == 2
\* Most file-system steps the mutation agent takes in one generation.
MaxAgentSteps == 2
\* Most commits the repository holds during a run.
MaxCommits == 3
\* Most times during a run that a git command which could have succeeded
\* exits non-zero instead (a stale index.lock, a full disk, a missing identity).
MaxFaults == 1

\* ------------------------------------------------------- program constants

\* config.rs: fn default_generations() -> u32 { 5 }
default_generations == 5

\* main.rs:57 and main.rs:261 slice the revision text with [0..7].
ShortShaLen == 7

\* Exit status of a Rust process whose main returns Err, and of one that panics.
ExitErr == 1
ExitPanic == 101

\* ----------------------------------------------------------------- options

\* Option<T> is a sequence of length at most one.
None == <<>>
Some(x) == <<x>>
IsSome(o) == Len(o) = 1
Unwrap(o) == o[1]
UnwrapOr(o, d) == IF IsSome(o) THEN o[1] ELSE d

\* ------------------------------------------------------------ file system

Absent == "<absent>"

Paths ==
  { "Evolve.toml", "Cargo.toml", "pyproject.toml", ".gitignore",
    "src/lib.rs", "main.py", "notes.txt", "src/extra.rs", "target/debug" }

EmptyTree == [p \in Paths |-> Absent]

Exists(tree, p) == tree[p] # Absent

\* The text of an Evolve.toml as the operator wrote it.
OrigToml == "<Evolve.toml as written>"
UserText == "<user content>"
AgentText == "<agent edit>"
ArtifactText == "<build artifact>"
CargoManifest == "[package]"
IgnoreTarget == "/target"

\* String predicates of the source, over the paths the model uses.
ends_with(s, suffix) ==
  \/ suffix = ".rs" /\ s \in {"src/lib.rs", "src/extra.rs"}
  \/ suffix = ".py" /\ s \in {"main.py"}

contains(s, needle) ==
  \/ needle = "lib.rs" /\ s \in {"src/lib.rs"}
  \/ needle = "test" /\ s \in {}

\* Mutant: split(' ') in place of split_whitespace(), which yields empty
\* strings for an empty or blank command line.
split_on_space(cmd) ==
  CASE cmd = "" -> <<"">>
    [] cmd = "   " -> <<"", "", "", "">>
    [] cmd = "cargo test" -> <<"cargo", "test">>
    [] cmd = "cargo nextest run" -> <<"cargo", "nextest", "run">>
    [] cmd = "make init" -> <<"make", "init">>
    [] OTHER -> <<cmd>>

\* split_whitespace().collect() of the command lines the model uses.
split_whitespace(cmd) ==
  CASE cmd = "" -> <<>>
    [] cmd = "   " -> <<>>
    [] cmd = "cargo test" -> <<"cargo", "test">>
    [] cmd = "cargo nextest run" -> <<"cargo", "nextest", "run">>
    [] cmd = "make init" -> <<"make", "init">>
    [] OTHER -> <<cmd>>

\* ------------------------------------------------------------ config.rs

\* serde defaults of EvolutionSettings.
default_test_cmd == "cargo nextest run"
default_files == <<"src/lib.rs">>

\* An Evolve.toml document: `valid` is whether it is well-formed TOML with an
\* [evolution] table; every key is an Option (None: the key is not written).
\* max_generations may be written as a negative integer, which u32 rejects.
BaseDoc ==
  [ valid |-> TRUE,
    instruction |-> Some("add fibonacci"),
    test_command |-> Some("cargo test"),
    max_generations |-> Some(MaxGenerations),
    files |-> None,
    project_type |-> None,
    bootstrap_command |-> None,
    file_extension |-> None,
    scaffold_content |-> None ]

\* toml::from_str::<EvolutionConfig>: Err on malformed text, on a missing
\* required `instruction`, and on a max_generations that is not a u32.
ParseFails(doc) ==
  \/ ~doc.valid
  \/ doc.instruction = None
  \/ IsSome(doc.max_generations) /\ Unwrap(doc.max_generations) < 0

\* The EvolutionSettings a document deserializes to (serde defaults applied).
SettingsOf(doc) ==
  [ instruction |-> Unwrap(doc.instruction),
    test_command |-> UnwrapOr(doc.test_command, default_test_cmd),
    max_generations |-> UnwrapOr(doc.max_generations, default_generations),
    files |-> UnwrapOr(doc.files, default_files),
    project_type |-> doc.project_type,
    bootstrap_command |-> doc.bootstrap_command,
    file_extension |-> doc.file_extension,
    scaffold_content |-> doc.scaffold_content ]

\* load_config: read_to_string fails when the file is absent, then the parse.
load_config(tree, doc) ==
  IF ~Exists(tree, "Evolve.toml") \/ ParseFails(doc)
    THEN [ok |-> FALSE, settings |-> SettingsOf(BaseDoc)]
    ELSE [ok |-> TRUE, settings |-> SettingsOf(doc)]

\* The documents of the explored runs: BaseDoc varied one key at a time.
RunDocs ==
  {[BaseDoc EXCEPT !.max_generations = m] :
      m \in {None} \cup {Some(n) : n \in -1..MaxGenerations}}
  \cup {[BaseDoc EXCEPT !.test_command = t] : t \in {None, Some(""), Some("   ")}}
  \cup {[BaseDoc EXCEPT !.valid = FALSE], [BaseDoc EXCEPT !.instruction = None],
        [BaseDoc EXCEPT !.instruction = Some("")]}
  \cup {[BaseDoc EXCEPT !.files = Some(f)] :
          f \in {<<>>, <<"main.py">>, <<"src/lib.rs", "main.py">>}}
  \cup {[BaseDoc EXCEPT !.bootstrap_command = Some(b)] : b \in {"make init", "   "}}
  \cup {[BaseDoc EXCEPT !.project_type = Some(t)] : t \in {"python"}}

\* ----------------------------------------------------- bootstrap helpers

\* Mutant: any .rs file makes the project rust, wherever it is in the list.
infer_project_type_rs_anywhere(files) ==
  IF \E i \in 1..Len(files) : ends_with(files[i], ".rs") THEN Some("rust")
  ELSE IF \E i \in 1..Len(files) : ends_with(files[i], ".py") THEN Some("python")
  ELSE None

RECURSIVE infer_project_type(_)
\* First file with a recognized extension decides; None when there is none.
infer_project_type(files) ==
  IF files = <<>> THEN None
  ELSE IF ends_with(Head(files), ".rs") THEN Some("rust")
  ELSE IF ends_with(Head(files), ".py") THEN Some("python")
  ELSE infer_project_type(Tail(files))

\* settings.project_type.as_deref().or_else(|| infer_project_type(files))
ResolvedProjectType(s) ==
  IF IsSome(s.project_type) THEN s.project_type ELSE infer_project_type(s.files)

RustScaffold == "// TODO: Implement\n"
PythonScaffold == "# TODO: Implement\n"

\* Mutant: the explicit extension is ignored, the file's name decides.
infer_scaffold_content_by_name(filename, explicit_ext) ==
  IF ends_with(filename, ".py") THEN PythonScaffold ELSE RustScaffold

\* main.rs:209-227
infer_scaffold_content(filename, explicit_ext) ==
  IF IsSome(explicit_ext)
    THEN (IF Unwrap(explicit_ext) = ".py" THEN PythonScaffold ELSE RustScaffold)
  ELSE IF ends_with(filename, ".rs") THEN RustScaffold
  ELSE IF ends_with(filename, ".py") THEN PythonScaffold
  ELSE RustScaffold

\* The content written for a missing file.
ScaffoldContent(s, filename) ==
  IF IsSome(s.scaffold_content) THEN Unwrap(s.scaffold_content)
  ELSE infer_scaffold_content(filename, s.file_extension)

\* Mutant: the scaffolding loop writes every listed file, present or not.
ScaffoldFilesOverwrite(tree, s, files) ==
  [p \in Paths |-> IF \E i \in 1..Len(files) : files[i] = p
                     THEN ScaffoldContent(s, p) ELSE tree[p]]

RECURSIVE ScaffoldFiles(_, _, _)
\* The scaffolding loop of bootstrap_project: a file is written only if absent.
ScaffoldFiles(tree, s, files) ==
  IF files = <<>> THEN tree
  ELSE LET f == Head(files)
           next == IF Exists(tree, f) THEN tree
                   ELSE [tree EXCEPT ![f] = ScaffoldContent(s, f)]
       IN ScaffoldFiles(next, s, Tail(files))

\* Whether the fallback branch runs `cargo init`.
ManifestExists(tree) == Exists(tree, "Cargo.toml") \/ Exists(tree, "pyproject.toml")
NeedsCargoInit(tree, s) ==
  /\ s.bootstrap_command = None
  /\ ~ManifestExists(tree)
  /\ ResolvedProjectType(s) = Some("rust")

\* What a successful `cargo init --lib|--bin` leaves in the directory: the
\* manifest, a .gitignore for /target and, for --lib, src/lib.rs when absent.
CargoInitTree(tree, s) ==
  LET needs_lib == \E i \in 1..Len(s.files) : contains(s.files[i], "lib.rs")
  IN [p \in Paths |->
       IF p = "Cargo.toml" THEN CargoManifest
       ELSE IF p = ".gitignore" /\ ~Exists(tree, p) THEN IgnoreTarget
       ELSE IF p = "src/lib.rs" /\ needs_lib /\ ~Exists(tree, p) THEN "<cargo lib template>"
       ELSE tree[p]]

\* -------------------------------------------------- build_enhanced_prompt

\* Evolve.toml texts an operator may write (each with the required
\* instruction): test_command given, omitted, given for a python project,
\* given with a '=' inside the command, and given in an indented table body.
TomlCargo ==
  "[evolution]\ninstruction = \"add fibonacci\"\ntest_command = \"cargo test\"\n"
TomlNoTest ==
  "[evolution]\ninstruction = \"add fibonacci\"\n"
TomlPyNoTest ==
  "[evolution]\ninstruction = \"add fibonacci\"\nfiles = [\"main.py\"]\n"
TomlPytest ==
  "[evolution]\ninstruction = \"add fibonacci\"\nfiles = [\"main.py\"]\ntest_command = \"pytest\"\n"
TomlEq ==
  "[evolution]\ninstruction = \"add fibonacci\"\nfiles = [\"main.py\"]\ntest_command = \"pytest --tb=short\"\n"
TomlIndented ==
  "[evolution]\n  instruction = \"add fibonacci\"\n  test_command = \"make check\"\n"
TomlTexts == {TomlCargo, TomlNoTest, TomlPyNoTest, TomlPytest, TomlEq, TomlIndented}

\* toml::from_str of each text (config.rs:61-68): the document it denotes.
TomlDoc(content) ==
  LET plain == [BaseDoc EXCEPT !.max_generations = None, !.test_command = None]
      py == [plain EXCEPT !.files = Some(<<"main.py">>)]
  IN CASE content = TomlCargo -> [plain EXCEPT !.test_command = Some("cargo test")]
       [] content = TomlNoTest -> plain
       [] content = TomlPyNoTest -> py
       [] content = TomlPytest -> [py EXCEPT !.test_command = Some("pytest")]
       [] content = TomlEq -> [py EXCEPT !.test_command = Some("pytest --tb=short")]
       [] content = TomlIndented -> [plain EXCEPT !.test_command = Some("make check")]
       [] OTHER -> [plain EXCEPT !.valid = FALSE]

\* str::lines() of each text.
lines(content) ==
  LET ins == "instruction = \"add fibonacci\""
      fpy == "files = [\"main.py\"]"
  IN CASE content = TomlCargo -> <<"[evolution]", ins, "test_command = \"cargo test\"">>
       [] content = TomlNoTest -> <<"[evolution]", ins>>
       [] content = TomlPyNoTest -> <<"[evolution]", ins, fpy>>
       [] content = TomlPytest -> <<"[evolution]", ins, fpy, "test_command = \"pytest\"">>
       [] content = TomlEq ->
            <<"[evolution]", ins, fpy, "test_command = \"pytest --tb=short\"">>
       [] content = TomlIndented ->
            <<"[evolution]", "  instruction = \"add fibonacci\"",
              "  test_command = \"make check\"">>
       [] OTHER -> <<>>

\* line.starts_with(prefix), over the lines above.
starts_with(line, prefix) ==
  /\ prefix = "test_command"
  /\ line \in {"test_command = \"cargo test\"", "test_command = \"pytest\"",
               "test_command = \"pytest --tb=short\""}

\* line.split('=').nth(1): what lies between the first and the second '='.
split_eq_nth1(line) ==
  CASE line = "test_command = \"cargo test\"" -> Some(" \"cargo test\"")
    [] line = "test_command = \"pytest\"" -> Some(" \"pytest\"")
    [] line = "test_command = \"pytest --tb=short\"" -> Some(" \"pytest --tb")
    [] line = "  test_command = \"make check\"" -> Some(" \"make check\"")
    [] line = "instruction = \"add fibonacci\"" -> Some(" \"add fibonacci\"")
    [] line = "files = [\"main.py\"]" -> Some(" [\"main.py\"]")
    [] OTHER -> None

\* s.trim().trim_matches('"')
trim_quotes(s) ==
  CASE s = " \"cargo test\"" -> "cargo test"
    [] s = " \"pytest\"" -> "pytest"
    [] s = " \"pytest --tb" -> "pytest --tb"
    [] s = " \"make check\"" -> "make check"
    [] s = " \"add fibonacci\"" -> "add fibonacci"
    [] OTHER -> s

\* main.rs:406-421
language_name(project_type) ==
  CASE project_type = "rust" -> "Rust"
    [] project_type = "python" -> "Python"
    [] OTHER -> "Software"
default_test_command(project_type) ==
  CASE project_type = "rust" -> "cargo test"
    [] project_type = "python" -> "pytest"
    [] OTHER -> "cargo test"

\* main.rs:424-477: the two requirement sections depend on the type alone.
get_code_quality_requirements(project_type) ==
  CASE project_type = "rust" -> "<rust code quality>"
    [] project_type = "python" -> "<python code quality>"
    [] OTHER -> "<generic code quality>"
get_test_quality_requirements(project_type) ==
  CASE project_type = "rust" -> "<rust test quality>"
    [] project_type = "python" -> "<python test quality>"
    [] OTHER -> "<generic test quality>"

\* Path::new(target_dir).file_name(), "project" when it has none.
TargetDir == "work/slow-fibo"
project_name_of(target_dir) ==
  CASE target_dir = "work/slow-fibo" -> "slow-fibo"
    [] target_dir = "." -> "project"
    [] OTHER -> target_dir

\* main.rs:326-341: the test command of the prompt is read again from the
\* Evolve.toml on disk, by a scan for the first line that starts with
\* test_command; settings.test_command is not consulted.
prompt_test_command(tree, project_type) ==
  IF ~Exists(tree, "Evolve.toml") THEN default_test_command(project_type)
  ELSE LET ls == lines(tree["Evolve.toml"])
           hits == {i \in 1..Len(ls) : starts_with(ls[i], "test_command")}
       IN IF hits = {} THEN default_test_command(project_type)
          ELSE LET first == CHOOSE i \in hits : \A j \in hits : i <= j
                   part == split_eq_nth1(ls[first])
               IN IF part = None THEN default_test_command(project_type)
                  ELSE trim_quotes(Unwrap(part))

\* main.rs:316-403: the prompt, section by section.
build_enhanced_prompt(tree, target_dir, instruction, files) ==
  LET project_type == UnwrapOr(infer_project_type(files), "rust")
      test_command == prompt_test_command(tree, project_type)
  IN [ role |-> language_name(project_type),
       project |-> project_name_of(target_dir),
       files |-> [i \in 1..Len(files) |->
                    <<files[i], IF contains(files[i], "test") THEN "test code"
                                                               ELSE "library code">>],
       test_command |-> test_command,
       code_quality |-> get_code_quality_requirements(project_type),
       test_quality |-> get_test_quality_requirements(project_type),
       verify_with |-> test_command,
       task |-> instruction ]

\* ------------------------------------------------------------ git commands

\* A repository: whether .git exists, HEAD (0: no commit yet), the index and
\* the commits (a commit's identifier is its position).
NoRepo == [dir |-> FALSE, head |-> 0, index |-> EmptyTree, commits |-> <<>>]

HeadTree(g) == IF g.head = 0 THEN EmptyTree ELSE g.commits[g.head]

\* A path matched by the working tree's .gitignore.
Ignored(tree, p) == tree[".gitignore"] = IgnoreTarget /\ p = "target/debug"

\* git init
GitInit(g) == [g EXCEPT !.dir = TRUE]

\* git add . : stage the working tree, skipping ignored paths that are untracked.
GitAddAll(g, tree) ==
  [g EXCEPT !.index =
     [p \in Paths |-> IF Ignored(tree, p) /\ g.index[p] = Absent THEN Absent ELSE tree[p]]]

\* git diff --cached --quiet exits 0 iff the index equals HEAD's tree.
DiffCachedQuiet(g) == g.dir /\ g.index = HeadTree(g)

\* git commit can succeed only when there is something staged.
CanCommit(g) == g.dir /\ g.index # HeadTree(g) /\ Len(g.commits) < MaxCommits
GitCommit(g) ==
  [g EXCEPT !.commits = Append(g.commits, g.index), !.head = Len(g.commits) + 1]

\* The text `git rev-parse HEAD` prints: the identifier of HEAD's commit, the
\* word HEAD when there is no commit yet, nothing outside a repository.
Sha(c) == [kind |-> "sha", commit |-> c]
RevHEAD == [kind |-> "HEAD", commit |-> 0]
RevEmpty == [kind |-> "", commit |-> 0]
StrLen(rev) == IF rev.kind = "sha" THEN 40 ELSE IF rev.kind = "HEAD" THEN 4 ELSE 0
RevParseHead(g) ==
  IF ~g.dir THEN RevEmpty ELSE IF g.head = 0 THEN RevHEAD ELSE Sha(g.head)

\* Whether `rev` names a commit of the repository, and which.
Resolves(g, rev) ==
  \/ rev.kind = "sha" /\ rev.commit \in 1..Len(g.commits)
  \/ rev.kind = "HEAD" /\ g.head # 0
ResolveRev(g, rev) == IF rev.kind = "sha" THEN rev.commit ELSE g.head

\* git reset --hard <rev>: HEAD, index and every tracked path become the
\* commit's; paths tracked before and not in the commit are removed;
\* untracked paths are left alone.  Commits made after the target are no longer
\* reachable from HEAD and are dropped from the model's list.
ResetHardTree(g, tree, c) ==
  [p \in Paths |->
     IF g.commits[c][p] # Absent THEN g.commits[c][p]
     ELSE IF g.index[p] # Absent \/ HeadTree(g)[p] # Absent THEN Absent
     ELSE tree[p]]
ResetHardRepo(g, c) ==
  [g EXCEPT !.head = c, !.index = g.commits[c], !.commits = SubSeq(g.commits, 1, c)]

\* git clean -fd: remove untracked paths that are not ignored (no -x).
GitCleanTree(g, tree) ==
  [p \in Paths |-> IF g.index[p] = Absent /\ ~Ignored(tree, p) THEN Absent ELSE tree[p]]

\* ------------------------------------------------------------------- state

VARIABLES
  doc,           \* the Evolve.toml document the operator wrote
  fs,            \* the target directory: path -> content
  git,           \* the target directory's repository
  pc,            \* the orchestrator's position in main
  settings,      \* config.evolution, once loaded
  start_commit,  \* the text ensure_git_clean_state returned
  generation,    \* the loop variable of `for generation in 1..=max_generations`
  active,        \* the child processes that are running
  agentSteps,    \* file-system steps the agent took in this generation
  outcome,       \* "running", "succeeded", "exhausted" or "aborted"
  exitCode,      \* the process exit status (-1 while running)
  abortAt,       \* which step's error ended the run
  faults,        \* git commands that failed though they could have succeeded
  hist           \* what has happened so far (observation only)

vars ==
  <<doc, fs, git, pc, settings, start_commit, generation, active, agentSteps,
    outcome, exitCode, abortAt, faults, hist>>

\* Target directories a run may start in.
TreeOf(pairs) == [p \in Paths |-> IF p \in DOMAIN pairs THEN pairs[p] ELSE Absent]

ConfigOnlyTree == TreeOf([x \in {"Evolve.toml"} |-> OrigToml])
CargoTree ==
  TreeOf("Evolve.toml" :> OrigToml @@ "Cargo.toml" :> CargoManifest
         @@ ".gitignore" :> IgnoreTarget @@ "src/lib.rs" :> UserText)
PythonTree ==
  TreeOf("Evolve.toml" :> OrigToml @@ "pyproject.toml" :> "[project]"
         @@ "main.py" :> UserText)

Worlds ==
  { [fs |-> EmptyTree, git |-> NoRepo],
    [fs |-> ConfigOnlyTree, git |-> NoRepo],
    [fs |-> PythonTree, git |-> NoRepo],
    [fs |-> CargoTree,
     git |-> [dir |-> TRUE, head |-> 1, index |-> CargoTree, commits |-> <<CargoTree>>]] }

InitHist ==
  [ agentCalls |-> 0,        \* calls of run_agent_mutation
    verifiedGen |-> 0,       \* the last generation verify_fitness was called in
    revertGen |-> 0,         \* the last generation revert_to_snapshot was called in
    revertedGen |-> 0,       \* the last generation whose revert returned Ok
    resetTargets |-> {},     \* every revision handed to `git reset --hard`
    orchCommits |-> 0,       \* commits the orchestrator itself created
    captures |-> 0,          \* times a baseline was captured
    captured |-> RevEmpty,   \* the text the capture returned
    done |-> {},             \* phases that have completed
    genResult |-> "none",    \* how this generation's mutate/verify ended
    resultGen |-> 0,         \* the generation genResult is about
    agentOkGen |-> 0,        \* the last generation whose agent returned Ok
    baseTree |-> EmptyTree,  \* the working tree when the baseline was captured
    verifiedTree |-> EmptyTree, \* the working tree the passing verifier ran against
    verifiedGit |-> NoRepo,  \* the repository when the verifier passed
    startTree |-> EmptyTree, \* the working tree the program started with
    prev |-> <<>> ]          \* what an earlier call of the same function left

Init ==
  /\ doc \in RunDocs
  /\ \E w \in Worlds : fs = w.fs /\ git = w.git
  /\ pc = "validate"
  /\ settings = SettingsOf(BaseDoc)
  /\ start_commit = RevEmpty
  /\ generation = 0
  /\ active = {}
  /\ agentSteps = 0
  /\ outcome = "running"
  /\ exitCode = -1
  /\ abortAt = ""
  /\ faults = 0
  /\ hist = [InitHist EXCEPT !.startTree = fs]

\* --------------------------------------------------------------- control

Goto(l) == pc' = l /\ UNCHANGED <<outcome, exitCode, abortAt>>

\* main returns Err (exit status 1) or panics (101).
Abort(reason, code) ==
  /\ pc' = "exit"
  /\ outcome' = "aborted"
  /\ exitCode' = code
  /\ abortAt' = reason

\* main returns Ok(()).
ReturnOk(how) ==
  /\ pc' = "exit"
  /\ outcome' = how
  /\ exitCode' = 0
  /\ abortAt' = ""

\* Command::output()/status(): the child is spawned and the caller blocks.
Spawned(child, waitAt) == active' = active \cup {child} /\ Goto(waitAt)
Exited(child) == active' = active \ {child}

\* ------------------------------------------------------ main: validation

\* main.rs:38-41
Validate ==
  /\ pc = "validate"
  /\ IF Exists(fs, "Evolve.toml")
       THEN Goto("load_config")
       ELSE Abort("missing_config", ExitErr)
  /\ UNCHANGED <<doc, faults, fs, git, settings, start_commit, generation, active, agentSteps, hist>>

\* main.rs:44-45
LoadConfig ==
  /\ pc = "load_config"
  /\ LET r == load_config(fs, doc)
     IN IF r.ok
          THEN settings' = r.settings /\ Goto("bootstrap")
          ELSE settings' = settings /\ Abort("bad_config", ExitErr)
  /\ UNCHANGED <<doc, faults, fs, git, start_commit, generation, active, agentSteps, hist>>

\* ------------------------------------------------------ bootstrap_project

\* Mutants of the two arms below: a failed bootstrap command that is fatal, a
\* failed cargo init that is only warned about.
BootstrapCommandFailedBails == Abort("bootstrap_command_failed", ExitErr)
CargoInitFailedWarns == Goto("scaffold")

\* main.rs:119-124: a non-zero exit of the bootstrap command is logged as a
\* warning and bootstrap_project goes on to the scaffolding.
BootstrapCommandFailedArm == Goto("scaffold")
\* main.rs:153-155: bail!("Cargo init failed")
CargoInitFailedArm == Abort("cargo_init_failed", ExitErr)

\* main.rs:107-111: a bootstrap command of only whitespace runs nothing.
BootstrapCommandSkip ==
  /\ pc = "bootstrap"
  /\ IsSome(settings.bootstrap_command)
  /\ split_whitespace(Unwrap(settings.bootstrap_command)) = <<>>
  /\ Goto("scaffold")
  /\ UNCHANGED <<doc, faults, fs, git, settings, start_commit, generation, active, agentSteps, hist>>

\* main.rs:112-116: spawn the bootstrap command; a spawn error is returned.
BootstrapCommandSpawn ==
  /\ pc = "bootstrap"
  /\ IsSome(settings.bootstrap_command)
  /\ split_whitespace(Unwrap(settings.bootstrap_command)) # <<>>
  /\ \E spawned \in BOOLEAN :
       IF spawned
         THEN Spawned("bootstrap_command", "bootstrap_wait")
         ELSE active' = active /\ Abort("bootstrap_spawn", ExitErr)
  /\ UNCHANGED <<doc, faults, fs, git, settings, start_commit, generation, agentSteps, hist>>

\* main.rs:118-124: a non-zero exit is logged and ignored.
BootstrapCommandExit ==
  /\ pc = "bootstrap_wait"
  /\ \E success \in BOOLEAN :
       IF success
         THEN /\ hist' = [hist EXCEPT !.done = @ \cup {"bootstrap_command_ok"}]
              /\ Goto("scaffold")
         ELSE /\ hist' = [hist EXCEPT !.done = @ \cup {"bootstrap_command_failed"}]
              /\ BootstrapCommandFailedArm
  /\ Exited("bootstrap_command")
  /\ UNCHANGED <<doc, faults, fs, git, settings, start_commit, generation, agentSteps>>

\* main.rs:126-170: without a bootstrap command, decide whether to run cargo.
BootstrapDetect ==
  /\ pc = "bootstrap"
  /\ settings.bootstrap_command = None
  /\ IF NeedsCargoInit(fs, settings) THEN Goto("cargo_init") ELSE Goto("scaffold")
  /\ UNCHANGED <<doc, faults, fs, git, settings, start_commit, generation, active, agentSteps, hist>>

\* main.rs:144-148
CargoInitSpawn ==
  /\ pc = "cargo_init"
  /\ \E spawned \in BOOLEAN :
       IF spawned
         THEN Spawned("cargo_init", "cargo_init_wait")
         ELSE active' = active /\ Abort("bootstrap_spawn", ExitErr)
  /\ UNCHANGED <<doc, faults, fs, git, settings, start_commit, generation, agentSteps, hist>>

\* main.rs:150-155: a non-zero exit of cargo init is fatal.  A successful
\* cargo init may also have created the repository (its default VCS is git).
CargoInitExit ==
  /\ pc = "cargo_init_wait"
  /\ Exited("cargo_init")
  /\ \E success \in BOOLEAN, vcs \in BOOLEAN :
       IF success
         THEN /\ fs' = CargoInitTree(fs, settings)
              /\ git' = IF vcs THEN GitInit(git) ELSE git
              /\ hist' = [hist EXCEPT !.done = @ \cup {"cargo_init"}]
              /\ Goto("scaffold")
         ELSE /\ ~vcs
              /\ UNCHANGED <<fs, git>>
              /\ hist' = [hist EXCEPT !.done = @ \cup {"cargo_init_failed"}]
              /\ CargoInitFailedArm
  /\ UNCHANGED <<doc, faults, settings, start_commit, generation, agentSteps>>

\* main.rs:174-193: scaffold the first k files; create_dir_all or write fails
\* at file k+1 (k < len) and the error is returned, else bootstrap returns Ok.
Scaffold ==
  /\ pc = "scaffold"
  /\ \E k \in 0..Len(settings.files) :
       /\ fs' = ScaffoldFiles(fs, settings, SubSeq(settings.files, 1, k))
       /\ IF k = Len(settings.files)
            THEN /\ hist' = [hist EXCEPT !.done = @ \cup {"bootstrap"}]
                 /\ Goto("git_init")
            ELSE /\ ~Exists(fs, settings.files[k + 1])
                 /\ hist' = hist
                 /\ Abort("scaffold_io", ExitErr)
  /\ UNCHANGED <<doc, faults, git, settings, start_commit, generation, active, agentSteps>>

\* ------------------------------------------------- ensure_git_clean_state

\* Every git call is Command::output()? or status()?: only a spawn error is
\* returned; the exit status of init, add, commit and rev-parse is not read.
GitSpawn(at, child, waitAt) ==
  /\ pc = at
  /\ \E spawned \in BOOLEAN :
       IF spawned
         THEN Spawned(child, waitAt)
         ELSE active' = active /\ Abort("vcs_spawn", ExitErr)
  /\ UNCHANGED <<doc, faults, fs, git, settings, start_commit, generation, agentSteps, hist>>

\* How a git child exits: it can exit 0 only when the command is `possible`
\* in the repository's state; a possible command exiting non-zero is a fault.
GitExits(possible, success) ==
  /\ success => possible
  /\ IF possible /\ ~success
       THEN faults < MaxFaults /\ faults' = faults + 1
       ELSE faults' = faults

\* `git commit` exits non-zero with "nothing to commit" when the index is HEAD.
NothingToCommit(g) == g.dir /\ g.index = HeadTree(g)

\* The observation that a git command of the capture exited non-zero.
NoteExit(h, name, success) ==
  IF success THEN h ELSE [h EXCEPT !.done = @ \cup {name}]

\* main.rs:231-232: .git exists, nothing to initialize.
GitInitSkip ==
  /\ pc = "git_init"
  /\ git.dir
  /\ Goto("git_add")
  /\ UNCHANGED <<doc, faults, fs, git, settings, start_commit, generation, active, agentSteps, hist>>

\* main.rs:233-237
GitInitSpawn == ~git.dir /\ GitSpawn("git_init", "git_init", "git_init_wait")

GitInitExit ==
  /\ pc = "git_init_wait"
  /\ Exited("git_init")
  /\ \E success \in BOOLEAN :
       /\ GitExits(TRUE, success)
       /\ git' = IF success THEN GitInit(git) ELSE git
       /\ hist' = NoteExit(hist, "git_init_failed", success)
  /\ Goto("git_add")
  /\ UNCHANGED <<doc, fs, settings, start_commit, generation, agentSteps>>

\* main.rs:239-242
GitAddSpawn == GitSpawn("git_add", "git_add", "git_add_wait")

GitAddExit ==
  /\ pc = "git_add_wait"
  /\ Exited("git_add")
  /\ \E success \in BOOLEAN :
       /\ GitExits(git.dir, success)
       /\ git' = IF success THEN GitAddAll(git, fs) ELSE git
       /\ hist' = NoteExit(hist, "git_add_failed", success)
  /\ Goto("git_diff")
  /\ UNCHANGED <<doc, fs, settings, start_commit, generation, agentSteps>>

\* main.rs:243-246
GitDiffSpawn == GitSpawn("git_diff", "git_diff", "git_diff_wait")

\* main.rs:247: commit unless the diff exited 0.
GitDiffExit ==
  /\ pc = "git_diff_wait"
  /\ Exited("git_diff")
  /\ \E success \in BOOLEAN :
       /\ GitExits(DiffCachedQuiet(git), success)
       /\ IF success THEN Goto("rev_parse") ELSE Goto("git_commit")
  /\ UNCHANGED <<doc, fs, git, settings, start_commit, generation, agentSteps, hist>>

\* main.rs:248-251
GitCommitSpawn == GitSpawn("git_commit", "git_commit", "git_commit_wait")

GitCommitExit ==
  /\ pc = "git_commit_wait"
  /\ Exited("git_commit")
  /\ \E success \in BOOLEAN :
       /\ GitExits(CanCommit(git), success)
       /\ IF success
            THEN /\ git' = GitCommit(git)
                 /\ hist' = [hist EXCEPT !.orchCommits = @ + 1]
            ELSE /\ git' = git
                 /\ hist' = NoteExit(hist, "git_commit_failed", NothingToCommit(git))
  /\ Goto("rev_parse")
  /\ UNCHANGED <<doc, fs, settings, start_commit, generation, agentSteps>>

\* main.rs:253-256
RevParseSpawn == GitSpawn("rev_parse", "rev_parse", "rev_parse_wait")

\* main.rs:257: the trimmed stdout is returned whatever the exit status.
RevParseExit ==
  /\ pc = "rev_parse_wait"
  /\ Exited("rev_parse")
  /\ \E success \in BOOLEAN :
       /\ GitExits(git.dir /\ git.head # 0, success)
       /\ start_commit' = IF success \/ (git.dir /\ git.head = 0)
                            THEN RevParseHead(git) ELSE RevEmpty
       /\ hist' = [NoteExit(hist, "rev_parse_failed", success) EXCEPT
                      !.captures = @ + 1, !.baseTree = fs, !.captured = start_commit']
  /\ Goto("log_baseline")
  /\ UNCHANGED <<doc, fs, git, settings, generation, agentSteps>>

\* main.rs:57: &start_commit[0..7] panics on a text shorter than 7 bytes.
LogBaseline ==
  /\ pc = "log_baseline"
  /\ IF StrLen(start_commit) >= ShortShaLen
       THEN /\ generation' = 1
            /\ hist' = [hist EXCEPT !.done = @ \cup {"baseline"}]
            /\ Goto("loop_head")
       ELSE /\ UNCHANGED <<generation, hist>>
            /\ Abort("baseline_panic", ExitPanic)
  /\ UNCHANGED <<doc, faults, fs, git, settings, start_commit, active, agentSteps>>

\* --------------------------------------------------------- evolution loop

\* Mutant: the range runs one generation too far.
LoopContinuesOffByOne == generation <= settings.max_generations + 1

\* main.rs:60: for generation in 1..=settings.max_generations
LoopContinues == generation <= settings.max_generations

\* Mutant: the revert resets to whatever HEAD is now.
RevertTargetHead == RevParseHead(git)

\* main.rs:75, 88, 92: every revert is handed &start_commit.
RevertTarget == start_commit

\* Mutants of the arms below: an agent error returned with `?`; a pass that
\* falls through to the revert; exhaustion reported as an error; aider
\* spawned without waiting for it.
AgentErrPropagates == Abort("agent_error", ExitErr)
\* Mutant: a revert that cannot spawn git is tried again.
RevertErrRetries == Goto("revert")
VerifyPassReverts == Goto("revert")
ExhaustedBails == Abort("exhausted", ExitErr)
AiderSpawnedNoWait == active' = active \cup {"aider"} /\ Goto("verify")

\* The arms of the two matches in the loop body.
\* main.rs:72
AgentOkArm == Goto("verify")
\* main.rs:73-77
AgentErrArm == Goto("revert")
\* main.rs:82-85
VerifyPassArm == ReturnOk("succeeded")
\* main.rs:86-89
VerifyFalseArm == Goto("revert")
\* main.rs:90-93
VerifyErrArm == Goto("revert")
\* main.rs:75, 88, 92: the `?` on revert_to_snapshot returns its error from main.
RevertErrArm == Abort("revert_spawn", ExitErr)
\* main.rs:97-101: the budget is used up; main logs and returns Ok(()).
ExhaustedArm == ReturnOk("exhausted")
\* main.rs:308: cmd.status() spawns aider and waits for it.
AiderSpawned == Spawned("aider", "aider_wait")

\* main.rs:60-62, 97-101
LoopHead ==
  /\ pc = "loop_head"
  /\ IF LoopContinues
       THEN /\ Goto("mutate")
            /\ hist' = [hist EXCEPT !.genResult = "none", !.resultGen = generation]
       ELSE /\ ExhaustedArm
            /\ hist' = hist
  /\ agentSteps' = 0
  /\ UNCHANGED <<doc, faults, fs, git, settings, start_commit, generation, active>>

\* main.rs:65-71, 283-308: run_agent_mutation builds the prompt (which cannot
\* fail), resolves the path and spawns aider; status() blocks until it exits.
AiderSpawn ==
  /\ pc = "mutate"
  /\ \E r \in {"path_error", "spawn_error", "spawned"} :
       /\ hist' = [hist EXCEPT !.agentCalls = @ + 1,
                               !.genResult = IF r = "spawned" THEN "mutating" ELSE "agent_failed"]
       /\ IF r = "spawned"
            THEN AiderSpawned
            ELSE active' = active /\ AgentErrArm
  /\ UNCHANGED <<doc, faults, fs, git, settings, start_commit, generation, agentSteps>>

\* What the agent does to the directory while it runs.
AgentRunning == "aider" \in active /\ agentSteps < MaxAgentSteps

\* The agent edits one of the files it was given.
AgentEdit ==
  /\ AgentRunning
  /\ \E i \in 1..Len(settings.files) :
       /\ fs[settings.files[i]] # AgentText
       /\ fs' = [fs EXCEPT ![settings.files[i]] = AgentText]
  /\ agentSteps' = agentSteps + 1
  /\ UNCHANGED <<doc, faults, git, pc, settings, start_commit, generation, active,
                 outcome, exitCode, abortAt, hist>>

\* The agent creates a new source file.
AgentCreate ==
  /\ AgentRunning
  /\ ~Exists(fs, "src/extra.rs")
  /\ fs' = [fs EXCEPT !["src/extra.rs"] = AgentText]
  /\ agentSteps' = agentSteps + 1
  /\ UNCHANGED <<doc, faults, git, pc, settings, start_commit, generation, active,
                 outcome, exitCode, abortAt, hist>>

\* The agent builds the project, leaving an artifact under target/.
AgentBuild ==
  /\ AgentRunning
  /\ ~Exists(fs, "target/debug")
  /\ fs' = [fs EXCEPT !["target/debug"] = ArtifactText]
  /\ agentSteps' = agentSteps + 1
  /\ UNCHANGED <<doc, faults, git, pc, settings, start_commit, generation, active,
                 outcome, exitCode, abortAt, hist>>

\* The agent commits its work (aider commits its edits by default).
AgentCommit ==
  /\ AgentRunning
  /\ CanCommit(GitAddAll(git, fs))
  /\ git' = GitCommit(GitAddAll(git, fs))
  /\ agentSteps' = agentSteps + 1
  /\ UNCHANGED <<doc, faults, fs, pc, settings, start_commit, generation, active,
                 outcome, exitCode, abortAt, hist>>

\* main.rs:308-312, 72-78: aider exits.
AiderExit ==
  /\ pc = "aider_wait"
  /\ Exited("aider")
  /\ \E success \in BOOLEAN :
       IF success
         THEN /\ hist' = [hist EXCEPT !.genResult = "agent_ok", !.agentOkGen = generation]
              /\ AgentOkArm
         ELSE /\ hist' = [hist EXCEPT !.genResult = "agent_failed"]
              /\ AgentErrArm
  /\ UNCHANGED <<doc, faults, fs, git, settings, start_commit, generation, agentSteps>>

\* main.rs:81, 482-485: an empty test command is Ok(false) without a process.
VerifyEmpty ==
  /\ pc = "verify"
  /\ split_whitespace(settings.test_command) = <<>>
  /\ hist' = [hist EXCEPT !.verifiedGen = generation,
                          !.genResult = "tests_failed"]
  /\ VerifyFalseArm
  /\ UNCHANGED <<doc, faults, fs, git, settings, start_commit, generation, active, agentSteps>>

\* main.rs:486-489: spawn the test command; a spawn error is Err.
TestSpawn ==
  /\ pc = "verify"
  /\ split_whitespace(settings.test_command) # <<>>
  /\ \E spawned \in BOOLEAN :
       /\ hist' = [hist EXCEPT !.verifiedGen = generation,
                               !.genResult = IF spawned THEN "verifying" ELSE "verifier_crashed"]
       /\ IF spawned
            THEN Spawned("test", "test_wait")
            ELSE active' = active /\ VerifyErrArm
  /\ UNCHANGED <<doc, faults, fs, git, settings, start_commit, generation, agentSteps>>

\* main.rs:490, 82-89: Ok(output.status.success())
TestExit ==
  /\ pc = "test_wait"
  /\ Exited("test")
  /\ \E success \in BOOLEAN :
       IF success
         THEN /\ hist' = [hist EXCEPT !.genResult = "passed", !.verifiedTree = fs,
                                      !.verifiedGit = git]
              /\ VerifyPassArm
         ELSE /\ hist' = [hist EXCEPT !.genResult = "tests_failed"]
              /\ VerifyFalseArm
  /\ UNCHANGED <<doc, faults, fs, git, settings, start_commit, generation, agentSteps>>

\* ------------------------------------------------------ revert_to_snapshot

\* main.rs:261-265: git reset --hard <sha>
ResetSpawn ==
  /\ pc = "revert"
  /\ \E spawned \in BOOLEAN :
       IF spawned
         THEN /\ hist' = [hist EXCEPT !.revertGen = generation,
                                      !.resetTargets = @ \cup {RevertTarget}]
              /\ Spawned("git_reset", "reset_wait")
         ELSE /\ hist' = [hist EXCEPT !.revertGen = generation]
              /\ active' = active
              /\ RevertErrArm
  /\ UNCHANGED <<doc, faults, fs, git, settings, start_commit, generation, agentSteps>>

\* The exit status of git reset is not read.
ResetExit ==
  /\ pc = "reset_wait"
  /\ Exited("git_reset")
  /\ \E success \in BOOLEAN :
       /\ GitExits(git.dir /\ Resolves(git, RevertTarget), success)
       /\ IF success
            THEN LET c == ResolveRev(git, RevertTarget)
                 IN fs' = ResetHardTree(git, fs, c) /\ git' = ResetHardRepo(git, c)
            ELSE UNCHANGED <<fs, git>>
  /\ Goto("clean")
  /\ UNCHANGED <<doc, settings, start_commit, generation, agentSteps, hist>>

\* main.rs:266-269: git clean -fd
CleanSpawn ==
  /\ pc = "clean"
  /\ \E spawned \in BOOLEAN :
       IF spawned
         THEN Spawned("git_clean", "clean_wait")
         ELSE active' = active /\ RevertErrArm
  /\ UNCHANGED <<doc, faults, fs, git, settings, start_commit, generation, agentSteps, hist>>

\* main.rs:270, 76, 94: revert returns Ok(()) whatever git clean's exit status
\* was, and the loop goes on to the next generation.
CleanExit ==
  /\ pc = "clean_wait"
  /\ Exited("git_clean")
  /\ \E success \in BOOLEAN :
       /\ GitExits(git.dir, success)
       /\ fs' = IF success THEN GitCleanTree(git, fs) ELSE fs
  /\ hist' = [hist EXCEPT !.revertedGen = generation]
  /\ generation' = generation + 1
  /\ Goto("loop_head")
  /\ UNCHANGED <<doc, git, settings, start_commit, agentSteps>>

\* ------------------------------------------------------------ specification

Next ==
  \/ Validate
  \/ LoadConfig
  \/ BootstrapCommandSkip
  \/ BootstrapCommandSpawn
  \/ BootstrapCommandExit
  \/ BootstrapDetect
  \/ CargoInitSpawn
  \/ CargoInitExit
  \/ Scaffold
  \/ GitInitSkip
  \/ GitInitSpawn
  \/ GitInitExit
  \/ GitAddSpawn
  \/ GitAddExit
  \/ GitDiffSpawn
  \/ GitDiffExit
  \/ GitCommitSpawn
  \/ GitCommitExit
  \/ RevParseSpawn
  \/ RevParseExit
  \/ LogBaseline
  \/ LoopHead
  \/ AiderSpawn
  \/ AgentEdit
  \/ AgentCreate
  \/ AgentBuild
  \/ AgentCommit
  \/ AiderExit
  \/ VerifyEmpty
  \/ TestSpawn
  \/ TestExit
  \/ ResetSpawn
  \/ ResetExit
  \/ CleanSpawn
  \/ CleanExit

Spec == Init /\ [][Next]_vars

\* main is one sequential thread that blocks on each child it spawns; given
\* that every child eventually exits (and the agent does finitely much before
\* it does), main always takes its next step.
FairSpec == Spec /\ WF_vars(Next)

\* ------------------------------------ ensure_git_clean_state, called twice

\* Directories ensure_git_clean_state may be called on: a fresh directory, a
\* project never put under git, a clean repository, a repository with
\* uncommitted work or with ignored build output, and one without a commit.
CleanRepo(tree) == [dir |-> TRUE, head |-> 1, index |-> tree, commits |-> <<tree>>]
CaptureWorlds ==
  { [fs |-> ConfigOnlyTree, git |-> NoRepo],
    [fs |-> PythonTree, git |-> NoRepo],
    [fs |-> CargoTree, git |-> CleanRepo(CargoTree)],
    [fs |-> [CargoTree EXCEPT !["src/lib.rs"] = AgentText], git |-> CleanRepo(CargoTree)],
    [fs |-> [CargoTree EXCEPT !["target/debug"] = ArtifactText], git |-> CleanRepo(CargoTree)],
    [fs |-> [PythonTree EXCEPT !["notes.txt"] = UserText], git |-> CleanRepo(PythonTree)],
    [fs |-> PythonTree, git |-> GitInit(NoRepo)] }

InitCapture ==
  /\ doc = BaseDoc
  /\ \E w \in CaptureWorlds : fs = w.fs /\ git = w.git
  /\ pc = "git_init"
  /\ settings = SettingsOf(BaseDoc)
  /\ start_commit = RevEmpty
  /\ generation = 0
  /\ active = {}
  /\ agentSteps = 0
  /\ outcome = "running"
  /\ exitCode = -1
  /\ abortAt = ""
  /\ faults = 0
  /\ hist = [InitHist EXCEPT !.startTree = fs]

\* The first call has returned Ok(text); the function is called again on the
\* same directory, nothing having touched the working tree in between.
CaptureAgain ==
  /\ pc = "log_baseline"
  /\ hist.prev = <<>>
  /\ hist' = [hist EXCEPT !.prev = <<[rev |-> start_commit, commits |-> hist.orchCommits,
                                      tree |-> fs]>>]
  /\ Goto("git_init")
  /\ UNCHANGED <<doc, faults, fs, git, settings, start_commit, generation, active, agentSteps>>

NextCapture ==
  \/ GitInitSkip
  \/ GitInitSpawn
  \/ GitInitExit
  \/ GitAddSpawn
  \/ GitAddExit
  \/ GitDiffSpawn
  \/ GitDiffExit
  \/ GitCommitSpawn
  \/ GitCommitExit
  \/ RevParseSpawn
  \/ RevParseExit
  \/ CaptureAgain

SpecCapture == InitCapture /\ [][NextCapture]_vars

\* --------------------------------------------- bootstrap_project, run twice

\* The settings bootstrap_project is explored with: every combination of the
\* keys it reads.
CustomScaffold == "<scaffold_content>"
BootDocs ==
  { [BaseDoc EXCEPT !.project_type = t, !.files = f, !.bootstrap_command = b,
                    !.file_extension = e, !.scaffold_content = c] :
      t \in {None, Some("rust"), Some("python"), Some("go")},
      f \in {None, Some(<<"main.py">>), Some(<<"notes.txt">>),
             Some(<<"notes.txt", "main.py">>), Some(<<"main.py", "src/lib.rs">>)},
      b \in {None, Some("make init"), Some("   ")},
      e \in {None, Some(".rs"), Some(".py"), Some(".js")},
      c \in {None, Some(CustomScaffold)} }

\* The directories it is explored in (Evolve.toml has been read from each).
BootTrees ==
  { ConfigOnlyTree, CargoTree, PythonTree,
    [ConfigOnlyTree EXCEPT !["main.py"] = UserText],
    [ConfigOnlyTree EXCEPT !["src/lib.rs"] = UserText, !["notes.txt"] = UserText] }

InitBootstrap ==
  /\ doc \in BootDocs
  /\ fs \in BootTrees
  /\ git = NoRepo
  /\ pc = "bootstrap"
  /\ settings = SettingsOf(doc)
  /\ start_commit = RevEmpty
  /\ generation = 0
  /\ active = {}
  /\ agentSteps = 0
  /\ outcome = "running"
  /\ exitCode = -1
  /\ abortAt = ""
  /\ faults = 0
  /\ hist = [InitHist EXCEPT !.startTree = fs]

\* bootstrap_project has returned (Ok, or Err in a run that then ended) and is
\* called again on the same directory with the same settings.
BootstrapAgain ==
  /\ pc \in {"git_init", "exit"}
  /\ hist.prev = <<>>
  /\ hist' = [hist EXCEPT !.prev = <<[rev |-> start_commit, commits |-> hist.orchCommits,
                                      tree |-> fs]>>]
  /\ pc' = "bootstrap"
  /\ outcome' = "running"
  /\ exitCode' = -1
  /\ abortAt' = ""
  /\ UNCHANGED <<doc, faults, fs, git, settings, start_commit, generation, active, agentSteps>>

NextBootstrap ==
  \/ BootstrapCommandSkip
  \/ BootstrapCommandSpawn
  \/ BootstrapCommandExit
  \/ BootstrapDetect
  \/ CargoInitSpawn
  \/ CargoInitExit
  \/ Scaffold
  \/ BootstrapAgain

SpecBootstrap == InitBootstrap /\ [][NextBootstrap]_vars

\* ------------------------------------- build_enhanced_prompt, called twice

\* The run is at the top of generation 1: Evolve.toml was loaded from the
\* text on disk, the project is bootstrapped and the baseline is its commit.
PromptTrees ==
  {[CargoTree EXCEPT !["Evolve.toml"] = t] : t \in {TomlCargo, TomlNoTest, TomlIndented}}
  \cup {[PythonTree EXCEPT !["Evolve.toml"] = t] : t \in {TomlPyNoTest, TomlPytest, TomlEq}}

InitPrompt ==
  /\ fs \in PromptTrees
  /\ doc = TomlDoc(fs["Evolve.toml"])
  /\ settings = load_config(fs, doc).settings
  /\ git = CleanRepo(fs)
  /\ pc = "mutate"
  /\ start_commit = Sha(1)
  /\ generation = 1
  /\ active = {}
  /\ agentSteps = 0
  /\ outcome = "running"
  /\ exitCode = -1
  /\ abortAt = ""
  /\ faults = 0
  /\ hist = [InitHist EXCEPT !.startTree = fs, !.baseTree = fs, !.captures = 1,
                             !.captured = Sha(1), !.done = {"bootstrap", "baseline"}]

\* Arguments build_enhanced_prompt is called with: main's own (the loaded
\* instruction and files) and others of the same and of another language.
PromptInstructions == {settings.instruction, "add primes"}
PromptFileLists ==
  {settings.files, <<"src/lib.rs">>, <<"src/lib.rs", "src/extra.rs">>, <<"main.py">>,
   <<"notes.txt">>}

\* main.rs:290: one call of build_enhanced_prompt, its arguments and result
\* kept for comparison.
PromptCall ==
  /\ pc = "mutate"
  /\ Len(hist.prev) < 2
  /\ \E instruction \in PromptInstructions, files \in PromptFileLists :
       hist' = [hist EXCEPT !.prev = Append(@,
                  [ generation |-> generation, instruction |-> instruction, files |-> files,
                    tree |-> fs,
                    prompt |-> build_enhanced_prompt(fs, TargetDir, instruction, files) ])]
  /\ UNCHANGED <<doc, faults, fs, git, pc, settings, start_commit, generation, active,
                 agentSteps, outcome, exitCode, abortAt>>

\* The loop has moved on to a later generation between the two calls.
LaterGeneration ==
  /\ pc = "mutate"
  /\ Len(hist.prev) = 1
  /\ generation < MaxGenerations
  /\ generation' = generation + 1
  /\ UNCHANGED <<doc, faults, fs, git, pc, settings, start_commit, active, agentSteps,
                 outcome, exitCode, abortAt, hist>>

\* Between the two calls Evolve.toml was rewritten or removed (by the agent
\* of a generation whose revert did not restore it, or by anyone else).
ConfigRewritten ==
  /\ pc = "mutate"
  /\ Len(hist.prev) = 1
  /\ "config_rewritten" \notin hist.done
  /\ \E t \in (TomlTexts \cup {Absent}) \ {fs["Evolve.toml"]} :
       fs' = [fs EXCEPT !["Evolve.toml"] = t]
  /\ hist' = [hist EXCEPT !.done = @ \cup {"config_rewritten"}]
  /\ UNCHANGED <<doc, faults, git, pc, settings, start_commit, generation, active,
                 agentSteps, outcome, exitCode, abortAt>>

NextPrompt ==
  \/ PromptCall
  \/ LaterGeneration
  \/ ConfigRewritten

SpecPrompt == InitPrompt /\ [][NextPrompt]_vars

\* ----------------------------------------------------------------- claims

\* The run is inside or past the generation loop.
EnteredLoop == "baseline" \in hist.done

\* The positions of revert_to_snapshot.
RevertPcs == {"revert", "reset_wait", "clean", "clean_wait"}

\* The outcomes of a generation that the loop answers with a revert.
FailedResults == {"agent_failed", "tests_failed", "verifier_crashed"}

\* The tree of the baseline commit, and the working tree being back at it:
\* every path of the baseline commit has the commit's content, and any other
\* path that exists was already there, unchanged, when the baseline was taken.
BaselineTree == git.commits[start_commit.commit]
TreeAtBaseline ==
  /\ start_commit.kind = "sha"
  /\ start_commit.commit \in 1..Len(git.commits)
  /\ \A p \in Paths :
       IF BaselineTree[p] # Absent
         THEN fs[p] = BaselineTree[p]
         ELSE fs[p] \in {Absent, hist.baseTree[p]}

\* C1: the agent is invoked at most max_generations times, and once a
\* verification has passed the run is over at once: main has returned
\* Succeeded in the generation that passed, no child is running, no revert
\* was started in that generation and no step of the program is enabled.
C1_AtMostNThenStop ==
  /\ hist.agentCalls > 0 => hist.agentCalls <= settings.max_generations
  /\ hist.genResult = "passed" =>
       /\ pc = "exit" /\ outcome = "succeeded"
       /\ active = {}
       /\ hist.agentCalls = generation
       /\ hist.revertGen < generation
  /\ pc = "exit" => ~ENABLED Next

\* Generation 1 passes with generations to spare: generation 2 is never tried.
C1_Witness ==
  /\ outcome = "succeeded"
  /\ generation = 1
  /\ settings.max_generations > 1
  /\ hist.agentCalls = 1

\* C2: after a failed generation the working tree is back at the baseline
\* (tracked contents equal to the baseline commit, nothing new left behind),
\* so every generation after the first starts from the pristine baseline.
C2_FailedGenerationRestoresBaseline ==
  (pc \in {"loop_head", "mutate"} /\ generation > 1) => TreeAtBaseline

\* C3: a run that entered the loop and ended Succeeded has the tree that
\* passed verification, and one that ended Exhausted has the baseline tree:
\* neither ends on a partially mutated tree.  (Whether such a run can end in
\* any other way is C6.)
C3_TerminalTreeVerifiedOrBaseline ==
  (pc = "exit" /\ EnteredLoop) =>
    /\ outcome = "succeeded" => fs = hist.verifiedTree
    /\ outcome = "exhausted" => TreeAtBaseline

\* C4: the baseline is captured once, before the first agent call, it is a
\* commit identifier that never changes afterwards, and every git reset of
\* every generation is handed exactly that identifier, wherever HEAD is.
C4_BaselineFixed ==
  /\ hist.captures <= 1
  /\ hist.agentCalls > 0 => hist.captures = 1
  /\ EnteredLoop =>
       /\ start_commit = hist.captured
       /\ start_commit.kind = "sha"
  /\ hist.resetTargets \subseteq {hist.captured}

\* A second-generation reset is running after the agent moved HEAD off the baseline.
C4_Witness ==
  /\ pc = "reset_wait"
  /\ generation = 2
  /\ git.head # start_commit.commit
  /\ hist.resetTargets = {start_commit}

\* C5: when a verification passes the orchestrator neither reverts nor
\* commits: the run ends with the tree and the repository exactly as the
\* verifier saw them, and the orchestrator's only commit ever is the one
\* Genesis commit of the baseline capture.
C5_PassKeepsTree ==
  /\ hist.genResult = "passed" =>
       /\ pc = "exit" /\ outcome = "succeeded"
       /\ fs = hist.verifiedTree
       /\ git = hist.verifiedGit
       /\ hist.revertGen # generation
  /\ hist.orchCommits <= 1
  /\ hist.orchCommits = 1 => pc \notin {"validate", "load_config", "bootstrap",
                                        "bootstrap_wait", "cargo_init", "cargo_init_wait",
                                        "scaffold", "git_init", "git_init_wait",
                                        "git_add", "git_add_wait", "git_diff",
                                        "git_diff_wait", "git_commit", "git_commit_wait"}

\* A run succeeded on a tree the agent changed, with the Genesis commit made
\* and the agent's edit still in place and uncommitted by the orchestrator.
C5_Witness ==
  /\ outcome = "succeeded"
  /\ hist.orchCommits = 1
  /\ fs # hist.baseTree
  /\ fs = hist.verifiedTree

\* C6 as stated: a run that entered generation 1 ends Succeeded or Exhausted.
C6_LoopNeverAborts ==
  (pc = "exit" /\ EnteredLoop) => outcome \in {"succeeded", "exhausted"}

\* C6 as amended: before the loop only configuration, bootstrap and baseline
\* errors abort; in the loop an agent or verifier error always leads into the
\* revert and on to the next generation, and the only abort is the error of
\* the revert itself (git could not be spawned).
C6_OnlyRevertErrorAborts ==
  /\ (outcome = "aborted" /\ ~EnteredLoop) =>
       abortAt \in {"missing_config", "bad_config", "bootstrap_spawn",
                    "cargo_init_failed", "scaffold_io", "vcs_spawn", "baseline_panic"}
  /\ (outcome = "aborted" /\ EnteredLoop) =>
       /\ abortAt = "revert_spawn"
       /\ hist.revertGen = generation
  /\ hist.genResult \in FailedResults =>
       \/ pc \in RevertPcs
       \/ pc = "loop_head" /\ generation = hist.resultGen + 1
       \/ pc = "exit" /\ outcome = "exhausted"
       \/ pc = "exit" /\ outcome = "aborted" /\ abortAt = "revert_spawn"

\* Generation 1's error was caught and reverted; generation 2's agent failed
\* too and the revert's own error ended the run.
C6_Witness ==
  /\ outcome = "aborted"
  /\ abortAt = "revert_spawn"
  /\ generation = 2
  /\ hist.genResult = "agent_failed"
  /\ hist.revertedGen = 1

\* The revert of the generation that genResult is about has returned Ok.
RevertReturned == hist.revertedGen = hist.resultGen

\* C7: when the agent fails in generation g the verifier is not invoked in g
\* and the agent is not called again in g; the revert follows, and when it has
\* returned the tree is at the baseline and the run is at generation g+1.
C7_AgentFailureRevertsAndAdvances ==
  hist.genResult = "agent_failed" =>
    /\ hist.verifiedGen # hist.resultGen
    /\ hist.agentCalls = hist.resultGen
    /\ ~RevertReturned => (pc \in RevertPcs \/ pc = "exit") /\ generation = hist.resultGen
    /\ RevertReturned =>
         /\ pc = "loop_head" \/ (pc = "exit" /\ outcome = "exhausted")
         /\ generation = hist.resultGen + 1
         /\ TreeAtBaseline

\* C8: a verifier crash and a verifier result of false are answered alike:
\* neither ends the loop or counts as a pass, the tree is reverted to the
\* baseline and the run goes on to the next generation.
C8_CrashLikeFalse ==
  hist.genResult \in {"tests_failed", "verifier_crashed"} =>
    /\ outcome # "succeeded"
    /\ ~RevertReturned => (pc \in RevertPcs \/ pc = "exit") /\ generation = hist.resultGen
    /\ RevertReturned =>
         /\ pc = "loop_head" \/ (pc = "exit" /\ outcome = "exhausted")
         /\ generation = hist.resultGen + 1
         /\ TreeAtBaseline

\* The children of each phase.
BootstrapChildren == {"bootstrap_command", "cargo_init"}
BaselineChildren == {"git_init", "git_add", "git_diff", "git_commit", "rev_parse"}
RevertChildren == {"git_reset", "git_clean"}
BaselinePcs ==
  {"git_init", "git_init_wait", "git_add", "git_add_wait", "git_diff", "git_diff_wait",
   "git_commit", "git_commit_wait", "rev_parse", "rev_parse_wait", "log_baseline"}

\* C9: the steps are totally ordered.  At most one child runs at a time;
\* baseline capture runs only after bootstrap has completed; the agent runs
\* only after the baseline is captured and after the revert of every earlier
\* generation has returned; the verifier runs only after this generation's
\* agent returned Ok; a revert runs only after this generation's mutation or
\* verification has ended in failure.
C9_TotalOrder ==
  /\ Cardinality(active) <= 1
  /\ (pc \in BaselinePcs \/ active \cap BaselineChildren # {}) =>
       /\ "bootstrap" \in hist.done
       /\ active \cap BootstrapChildren = {}
  /\ active \cap BootstrapChildren # {} => ~EnteredLoop /\ hist.captures = 0
  /\ "aider" \in active =>
       /\ EnteredLoop
       /\ hist.revertedGen = generation - 1
       /\ hist.genResult = "mutating"
  /\ "test" \in active =>
       /\ hist.agentOkGen = generation
       /\ hist.genResult = "verifying"
  /\ (pc \in RevertPcs \/ active \cap RevertChildren # {}) =>
       /\ hist.genResult \in FailedResults
       /\ hist.resultGen = generation
       /\ active \subseteq RevertChildren
  /\ (pc = "mutate" /\ generation > 1) => hist.revertedGen = generation - 1

\* The verifier of generation 2 is running, alone, after generation 1 was reverted.
C9_Witness ==
  /\ active = {"test"}
  /\ generation = 2
  /\ hist.revertedGen = 1
  /\ hist.agentOkGen = 2

\* C10: the exit status is non-zero when Evolve.toml is missing or malformed
\* or bootstrapping fails fatally, and zero both when a generation passed and
\* when every generation was used without a pass.
C10_ExitStatus ==
  pc = "exit" =>
    /\ (ParseFails(doc) \/ abortAt \in {"missing_config", "bad_config", "bootstrap_spawn",
                                        "cargo_init_failed", "scaffold_io"})
         => exitCode # 0
    /\ hist.genResult = "passed" => exitCode = 0
    /\ (EnteredLoop /\ generation > settings.max_generations) =>
         (exitCode = 0 /\ outcome = "exhausted")

\* All of two or more generations were used without a pass and main returned Ok.
C10_Witness ==
  /\ pc = "exit"
  /\ outcome = "exhausted"
  /\ exitCode = 0
  /\ settings.max_generations >= 2
  /\ hist.agentCalls = settings.max_generations

\* The second call of ensure_git_clean_state has returned Ok.
SecondCaptureReturned == pc = "log_baseline" /\ hist.prev # <<>>

\* C11: ensure_git_clean_state called twice on the same directory, with no
\* change to the working tree in between: when both calls return a revision
\* identifier it is the same one, and the second call creates no commit.
C11_CaptureIdempotent ==
  SecondCaptureReturned /\ hist.prev[1].rev.kind = "sha" /\ start_commit.kind = "sha" =>
    /\ start_commit = hist.prev[1].rev
    /\ hist.orchCommits = hist.prev[1].commits

\* The paths listed in settings.files.
ListedFiles == {settings.files[i] : i \in 1..Len(settings.files)}

\* bootstrap_project has returned Ok (main is about to capture the baseline).
BootstrapReturnedOk == pc = "git_init" /\ "bootstrap" \in hist.done

\* C12: a listed file that existed before bootstrap_project ran keeps its
\* content, whatever scaffold_content and file_extension are, and a second
\* run of bootstrap_project changes the content of no file the first run
\* wrote or found.
C12_BootstrapNeverOverwrites ==
  /\ \A p \in ListedFiles : Exists(hist.startTree, p) => fs[p] = hist.startTree[p]
  /\ hist.prev # <<>> =>
       \A p \in Paths : Exists(hist.prev[1].tree, p) => fs[p] = hist.prev[1].tree[p]

\* The second run has returned Ok in a directory where the first run found
\* one listed file and wrote another, with scaffold_content configured.
C12_Witness ==
  /\ BootstrapReturnedOk
  /\ hist.prev # <<>>
  /\ IsSome(settings.scaffold_content)
  /\ \E p, q \in ListedFiles :
       /\ hist.startTree[p] = UserText /\ fs[p] = UserText
       /\ ~Exists(hist.startTree, q) /\ fs[q] = CustomScaffold

\* The git commands of the capture that exited non-zero for a reason other
\* than "nothing to commit".
CaptureFailures ==
  hist.done \cap {"git_init_failed", "git_add_failed", "git_commit_failed", "rev_parse_failed"}

\* C13: when git init, add, commit or rev-parse of the baseline capture fails
\* (other than a commit with nothing to commit) the run aborts and generation 1
\* is never entered; generation 1 is entered only with a revision identifier.
C13_CaptureFailureAborts ==
  /\ CaptureFailures # {} => ~EnteredLoop
  /\ EnteredLoop => start_commit.kind = "sha"

\* C14: once `cargo init` has exited non-zero the run is over with an error
\* and stays in its initial phase: no file was written, the repository is the
\* one the run started with (no init, no commit), no baseline was captured and
\* the agent was never invoked.
C14_InitializerFailureAborts ==
  "cargo_init_failed" \in hist.done =>
    /\ pc = "exit" /\ outcome = "aborted" /\ exitCode = ExitErr
    /\ "bootstrap" \notin hist.done
    /\ fs = hist.startTree
    /\ \E w \in Worlds : w.fs = hist.startTree /\ git = w.git
    /\ hist.orchCommits = 0
    /\ hist.captures = 0 /\ start_commit = RevEmpty /\ ~EnteredLoop
    /\ hist.agentCalls = 0
    /\ active = {}

\* cargo init was run in a directory holding only Evolve.toml and failed.
C14_Witness ==
  /\ "cargo_init_failed" \in hist.done
  /\ abortAt = "cargo_init_failed"
  /\ hist.startTree = ConfigOnlyTree
  /\ ~Exists(fs, "src/lib.rs")

\* C15: with bootstrap_command set cargo init is never run; and once the
\* command has exited non-zero the scaffolding still follows: the run is not
\* ended by the command's failure, and unless a write of the scaffolding itself
\* fails bootstrap_project returns Ok with every listed file present and main
\* goes on to the baseline capture.
C15_BootstrapCommandFailureNonFatal ==
  /\ IsSome(settings.bootstrap_command) =>
       /\ pc \notin {"cargo_init", "cargo_init_wait"}
       /\ "cargo_init" \notin active
       /\ hist.done \cap {"cargo_init", "cargo_init_failed"} = {}
  /\ "bootstrap_command_failed" \in hist.done =>
       /\ abortAt \notin {"bootstrap_command_failed", "bootstrap_spawn", "cargo_init_failed"}
       /\ pc = "scaffold" \/ abortAt = "scaffold_io" \/ "bootstrap" \in hist.done
       /\ "bootstrap" \in hist.done /\ pc \in BaselinePcs =>
            \A f \in ListedFiles : Exists(fs, f)

\* The bootstrap command failed, src/lib.rs was scaffolded all the same, the
\* baseline was captured and generation 1 is about to call the agent.
C15_Witness ==
  /\ "bootstrap_command_failed" \in hist.done
  /\ ~Exists(hist.startTree, "src/lib.rs")
  /\ fs["src/lib.rs"] = RustScaffold
  /\ EnteredLoop
  /\ generation = 1
  /\ pc = "mutate"

\* The loaded test_command is empty or only whitespace.
BlankTestCommand == settings.test_command \in {"", "   "}

\* What a blank test_command means inside the loop: no test process is ever
\* spawned, no generation passes, and a generation whose agent returned Ok is
\* answered with the revert.
BlankNeverVerifies ==
  /\ "test" \notin active /\ pc # "test_wait"
  /\ hist.genResult \notin {"verifying", "passed", "verifier_crashed"}
  /\ outcome # "succeeded"
  /\ generation >= 1 /\ hist.agentOkGen = generation /\ pc # "verify" =>
       pc \in RevertPcs \/ (pc = "exit" /\ abortAt = "revert_spawn")
  /\ hist.agentOkGen \in 1..(generation - 1) => hist.revertedGen >= hist.agentOkGen

\* C16 as stated: with a blank test_command verify_fitness spawns nothing and
\* never passes, every generation whose agent succeeded is reverted, and the
\* run ends exhausted after exactly max_generations agent calls.
C16_BlankCommandExhausts ==
  BlankTestCommand =>
    /\ BlankNeverVerifies
    /\ pc = "exit" /\ EnteredLoop =>
         outcome = "exhausted" /\ hist.agentCalls = settings.max_generations

\* C16 amended: the same, except that the run may also end with the error of
\* a revert (git could not be spawned), after at most max_generations calls.
C16_BlankCommandExhaustsOrRevertAborts ==
  BlankTestCommand =>
    /\ BlankNeverVerifies
    /\ pc = "exit" /\ EnteredLoop =>
         \/ outcome = "exhausted" /\ hist.agentCalls = settings.max_generations
         \/ /\ outcome = "aborted" /\ abortAt = "revert_spawn"
            /\ hist.agentCalls = generation /\ generation <= settings.max_generations

\* A run with test_command = "   " in which the agent succeeded in both
\* generations, both were reverted and the budget ran out.
C16_Witness ==
  /\ settings.test_command = "   "
  /\ pc = "exit" /\ outcome = "exhausted"
  /\ hist.agentCalls = 2 /\ hist.agentOkGen = 2 /\ hist.revertedGen = 2
  /\ hist.verifiedGen = 2

\* C17: the settings the loop runs with have a non-empty instruction, a
\* max_generations of at least 1 and a non-empty files list.
C17_SettingsInvariants ==
  EnteredLoop =>
    /\ settings.instruction # ""
    /\ settings.max_generations >= 1
    /\ settings.files # <<>>

\* main has returned or panicked in one of its three ways, no child running.
Terminal ==
  /\ pc = "exit"
  /\ outcome \in {"succeeded", "exhausted", "aborted"}
  /\ active = {}

\* C18: every run reaches a terminal state; the generation number changes
\* only by the loop stepping from one generation to the next; inside the loop
\* the agent has been called in every earlier generation and at most once in
\* this one (none skipped, none repeated); and the run has an outcome exactly
\* when main has ended.
C18_TerminatesGenerationByGeneration ==
  /\ <>Terminal
  /\ [][\/ generation' = generation
        \/ generation = 0 /\ generation' = 1 /\ pc = "log_baseline"
        \/ generation >= 1 /\ generation' = generation + 1 /\ pc = "clean_wait"]_vars
  /\ [](EnteredLoop => hist.agentCalls \in {generation - 1, generation})
  /\ [](pc = "exit" <=> outcome # "running")

\* A run that went through both generations, each reverted, and ended
\* exhausted.
C18_Witness ==
  /\ Terminal
  /\ outcome = "exhausted"
  /\ settings.max_generations = 2
  /\ generation = 3
  /\ hist.agentCalls = 2
  /\ hist.revertedGen = 2

\* The project type as the claim resolves it: the explicit project_type, else
\* the language of the first listed file with a recognized extension.
RecognizedEntries ==
  {i \in 1..Len(settings.files) :
     ends_with(settings.files[i], ".rs") \/ ends_with(settings.files[i], ".py")}
ClaimedProjectType ==
  IF IsSome(settings.project_type) THEN Unwrap(settings.project_type)
  ELSE IF RecognizedEntries = {} THEN "unknown"
  ELSE LET first == CHOOSE i \in RecognizedEntries : \A j \in RecognizedEntries : i <= j
       IN IF ends_with(settings.files[first], ".rs") THEN "rust" ELSE "python"

\* When the claim says cargo init runs, judged on the directory as found.
InitializerExpected ==
  /\ settings.bootstrap_command = None
  /\ ~Exists(hist.startTree, "Cargo.toml")
  /\ ~Exists(hist.startTree, "pyproject.toml")
  /\ ClaimedProjectType = "rust"

\* bootstrap_project has gone to run cargo init (whether or not it could be
\* spawned, and however it exited).
InitializerAttempted ==
  \/ pc \in {"cargo_init", "cargo_init_wait"}
  \/ hist.done \cap {"cargo_init", "cargo_init_failed"} # {}
  \/ settings.bootstrap_command = None /\ abortAt = "bootstrap_spawn"

\* C19: once bootstrap_project is past its first decision, cargo init has
\* been run exactly when bootstrap_command is unset, the directory had no
\* manifest and the resolved type is rust; it runs before anything is
\* scaffolded; and when it is not due and there is no bootstrap command, no
\* process is run and only a failed write can make bootstrap fail.
C19_InitializerRunsIffRust ==
  /\ pc # "bootstrap" => (InitializerAttempted <=> InitializerExpected)
  /\ pc \in {"cargo_init", "cargo_init_wait"} /\ hist.prev = <<>> => fs = hist.startTree
  /\ ~InitializerExpected /\ settings.bootstrap_command = None =>
       /\ active = {}
       /\ abortAt \in {"", "scaffold_io"}

\* files = ["src/lib.rs"], no project_type, a directory with only Evolve.toml:
\* cargo init ran, then bootstrap returned Ok with src/lib.rs present.
C19_Witness ==
  /\ settings.files = <<"src/lib.rs">>
  /\ settings.project_type = None
  /\ hist.startTree = ConfigOnlyTree
  /\ "cargo_init" \in hist.done
  /\ BootstrapReturnedOk
  /\ Exists(fs, "Cargo.toml") /\ Exists(fs, "src/lib.rs")

\* The scaffold content as the claim chooses it: scaffold_content; else the
\* language of file_extension when that is a recognized one; else the language
\* of the file's own extension; else the generic placeholder (the same text as
\* the rust one).
ClaimedScaffold(f) ==
  IF IsSome(settings.scaffold_content) THEN Unwrap(settings.scaffold_content)
  ELSE IF settings.file_extension = Some(".rs") THEN RustScaffold
  ELSE IF settings.file_extension = Some(".py") THEN PythonScaffold
  ELSE IF ends_with(f, ".rs") THEN RustScaffold
  ELSE IF ends_with(f, ".py") THEN PythonScaffold
  ELSE RustScaffold

\* C20 as stated: when bootstrap_project has returned Ok every listed file
\* exists, and each one that was missing (and was not created by cargo init)
\* holds the content the claim's priority chain chooses.
C20_ScaffoldPriority ==
  BootstrapReturnedOk =>
    \A f \in ListedFiles :
      /\ Exists(fs, f)
      /\ ~Exists(hist.startTree, f) /\ fs[f] # "<cargo lib template>" =>
           fs[f] = ClaimedScaffold(f)

\* The chain with file_extension as an override: when it is set it alone
\* decides (".py" the python comment, anything else the generic one) and the
\* file's own extension is consulted only when it is not set.
OverrideScaffold(f) ==
  IF IsSome(settings.scaffold_content) THEN Unwrap(settings.scaffold_content)
  ELSE IF IsSome(settings.file_extension)
    THEN (IF settings.file_extension = Some(".py") THEN PythonScaffold ELSE RustScaffold)
  ELSE IF ends_with(f, ".py") THEN PythonScaffold
  ELSE RustScaffold

\* C20 amended: as C20, with a set file_extension overriding the file's own
\* extension even when it names no recognized language.
C20_ScaffoldPriorityOverride ==
  BootstrapReturnedOk =>
    \A f \in ListedFiles :
      /\ Exists(fs, f)
      /\ ~Exists(hist.startTree, f) /\ fs[f] # "<cargo lib template>" =>
           fs[f] = OverrideScaffold(f)

\* file_extension = ".js" and a missing main.py: bootstrap returned Ok and
\* main.py holds the generic placeholder, not the python one; a missing
\* notes.txt beside it holds the same.
C20_Witness ==
  /\ BootstrapReturnedOk
  /\ settings.scaffold_content = None
  /\ settings.file_extension = Some(".js")
  /\ settings.files = <<"notes.txt", "main.py">>
  /\ hist.startTree = ConfigOnlyTree
  /\ fs["main.py"] = RustScaffold
  /\ fs["notes.txt"] = RustScaffold

\* The calls of build_enhanced_prompt that main makes: with the loaded
\* instruction and files.
MainsCalls ==
  {i \in 1..Len(hist.prev) :
     /\ hist.prev[i].instruction = settings.instruction
     /\ hist.prev[i].files = settings.files}

\* C21: in every call main makes, the test command written into the prompt
\* (in its context section and in its VERIFY step) is settings.test_command,
\* the command verify_fitness runs.
C21_PromptTestCommandIsVerifiers ==
  \A i \in MainsCalls :
    /\ hist.prev[i].prompt.test_command = settings.test_command
    /\ hist.prev[i].prompt.verify_with = settings.test_command

\* A prompt with its enumerated-files section blanked.
WithoutFiles(prompt) == [prompt EXCEPT !.files = <<>>]

\* C22: two calls with the same instruction and files return the same
\* prompt, whatever the file system holds and whichever generation calls; two
\* calls with the same instruction and files of the same inferred type return
\* prompts that differ in the enumerated files at most.
C22_PromptDependsOnInputsOnly ==
  Len(hist.prev) = 2 =>
    LET a == hist.prev[1]
        b == hist.prev[2]
    IN /\ a.instruction = b.instruction /\ a.files = b.files => a.prompt = b.prompt
       /\ a.instruction = b.instruction
            /\ infer_project_type(a.files) = infer_project_type(b.files) =>
              WithoutFiles(a.prompt) = WithoutFiles(b.prompt)

====
